---------------------------- MODULE Spec2Model ----------------------------
(***************************************************************************)
(* WindowIterator of 5_word2vec.ipynb: the mini-batch iterator that draws  *)
(* center positions from a shuffled order and gathers their context words. *)
(* Python indices are kept 0-based: the corpus is a function on 0..N-1,    *)
(* current_position is an offset into order; order itself is a sequence,   *)
(* so order[k+1] here is self.order[k] there.                              *)
(***************************************************************************)
EXTENDS Integers, Sequences, FiniteSets, TLC

\* Bounds of the model.
MaxC == 3         \* largest window
MaxL == 3         \* most valid center positions: len(dataset) - 2 * window
MaxB == 3         \* largest batch size
MaxCalls == 5     \* calls of __next__ that are followed
MaxSerialize == 2 \* calls of serialize that are followed
MaxBlocks == 1    \* most BottleNecks per ResBlock (an entry of n_blocks)
MaxConvs == 3     \* largest n_convs given to a VGGBlock
MaxBatch == 2     \* most rows of a batch given to SkipGram
MaxContext == 2   \* most context words per row given to SkipGram

VARIABLES
    dataset,            \* self.dataset: token ids, a function on 0..N-1
    window,             \* self.window
    batch_size,         \* self.batch_size
    repeat,             \* self._repeat
    order,              \* self.order
    current_position,   \* self.current_position
    epoch,              \* self.epoch
    is_new_epoch,       \* self.is_new_epoch
    outcome,            \* how the latest __next__ ended: "none" before the first call,
                        \* "batch", "StopIteration", "ValueError", "IndexError"
    position,           \* local `position` of the latest call (<<>> if not computed)
    w,                  \* local `w` of the latest call (0 if not sampled)
    pos,                \* local `pos` of the latest call: one row per center
    center,             \* returned center tokens (<<>> when nothing is returned)
    context,            \* returned context tokens, one row per center
    calls,              \* number of __next__ calls so far
    drawn,              \* center positions returned since the last epoch increment
    checkpoint,         \* what the serializer holds: key -> value
    ser,                \* the latest serialize call: its mode, how it ended, whether
                        \* the iterator was freshly constructed, the number of calls
    saved,              \* the iterator's fields when serialize last saved them
    config_train,       \* chainer.config.train
    chain,              \* the model object last constructed
    fwd                 \* the latest __call__ of a model object and what it returned

iterator == <<dataset, window, batch_size, repeat, order, current_position, epoch,
              is_new_epoch, outcome, position, w, pos, center, context, calls, drawn>>

serialization == <<checkpoint, ser, saved>>

models == <<config_train, chain, fwd>>

others == <<serialization, models>>

vars == <<iterator, others>>

params == <<dataset, window, batch_size, repeat>>

-----------------------------------------------------------------------------
\* numpy / Python primitives, as the code uses them.

Min(a, b) == IF a <= b THEN a ELSE b

Range(s) == { s[k] : k \in DOMAIN s }

\* len(dataset)
N == Cardinality(DOMAIN dataset)

\* s[i:j] for 0 <= i <= j: the slice is cut at the end of s.
SliceInclusive(s, i, j) ==
    IF Min(j + 1, Len(s)) <= i THEN << >>
    ELSE [k \in 1..(Min(j + 1, Len(s)) - i) |-> s[i + k]]
Slice(s, i, j) ==
    IF Min(j, Len(s)) <= i THEN << >>
    ELSE [k \in 1..(Min(j, Len(s)) - i) |-> s[i + k]]

\* np.arange(a, b)
Arange(a, b) == IF b <= a THEN << >> ELSE [k \in 1..(b - a) |-> a + k - 1]

\* np.random.randint(high): the values it can return; empty when it raises
\* ValueError (high <= 0).
RandInt(high) == 0..(high - 1)

\* np.random.permutation(n): every arrangement of 0..n-1.
Permutation(n) ==
    { p \in [1..n -> 0..(n - 1)] : \A a, b \in 1..n : a # b => p[a] # p[b] }

\* np.random.shuffle(o): every rearrangement of the entries of o.
ShuffleWithReplacement(o) == [1..Len(o) -> Range(o)]
Shuffle(o) ==
    { [k \in 1..Len(o) |-> o[p[k] + 1]] : p \in Permutation(Len(o)) }

\* ndarray.take(idx), mode='raise': a negative index counts from the end, an
\* index outside -n..n-1 raises IndexError.
TakeOK(d, idx) == idx \in (0 - Cardinality(DOMAIN d))..(Cardinality(DOMAIN d) - 1)
Take(d, idx) == IF idx < 0 THEN d[idx + Cardinality(DOMAIN d)] ELSE d[idx]

-----------------------------------------------------------------------------
\* WindowIterator.__init__

\* The corpora the iterator is built over: token = position, and a corpus
\* with repeated tokens.
Corpora(n) == { [i \in 0..(n - 1) |-> i], [i \in 0..(n - 1) |-> (i * i) % 3] }

\* self.order = permutation(len(dataset) - window * 2); self.order += window
InitOrderNoShift(n, c) == Permutation(n - c * 2)
InitOrder(n, c) ==
    { [k \in 1..(n - c * 2) |-> p[k] + c] : p \in Permutation(n - c * 2) }

\* no model object has been constructed or called
NoChain == [cls |-> "none"]
NoCall == [cls |-> "none"]

Init ==
    /\ config_train = TRUE
    /\ chain = NoChain
    /\ fwd = NoCall
    /\ window \in 1..MaxC
    /\ batch_size \in 1..MaxB
    /\ repeat \in BOOLEAN
    /\ \E n \in (2 * window + 1)..(2 * window + MaxL) :
          /\ dataset \in Corpora(n)
          /\ order \in InitOrder(n, window)
    /\ current_position = 0
    /\ epoch = 0
    /\ is_new_epoch = FALSE
    /\ outcome = "none"
    /\ position = << >>
    /\ w = 0
    /\ pos = << >>
    /\ center = << >>
    /\ context = << >>
    /\ calls = 0
    /\ drawn = {}
    /\ checkpoint = << >>
    /\ ser = [mode |-> "none", result |-> "none", fresh |-> FALSE, count |-> 0]
    /\ saved = [order |-> << >>, current_position |-> 0, epoch |-> 0,
                is_new_epoch |-> FALSE]

-----------------------------------------------------------------------------
\* WindowIterator.__next__

\* if not self._repeat and self.epoch > 0
ShouldStop == ~repeat /\ epoch > 0

\* w = np.random.randint(self.window - 1) + 1
SampleWUpToWindowPlusOne(c) == { r + 1 : r \in RandInt(c + 1) }
SampleW(c) == { r + 1 : r \in RandInt(c - 1) }

\* offset = np.concatenate([np.arange(-w, 0), np.arange(1, w + 1)])
OffsetWithZero(ww) == Arange(0 - ww, ww + 1)
Offset(ww) == Arange(0 - ww, 0) \o Arange(1, ww + 1)

\* pos = position[:, None] + offset[None, :]
Pos(p, offset) ==
    [r \in 1..Len(p) |-> [c \in 1..Len(offset) |-> p[r] + offset[c]]]

\* every index of pos and position is one take accepts
AllTakeOK(p, ps) ==
    /\ \A r \in 1..Len(p) : TakeOK(dataset, p[r])
    /\ \A r \in 1..Len(ps) : \A c \in 1..Len(ps[r]) : TakeOK(dataset, ps[r][c])

\* if i_end >= len(self.order)
EpochEndStrict(i_end, o) == i_end > Len(o)
EpochEndAtCursor(i_end, o) == current_position >= Len(o)
EpochEnd(i_end, o) == i_end >= Len(o)

\* else: self.is_new_epoch = False
IsNewEpochLeftAsIs == is_new_epoch
IsNewEpochWithinEpoch == FALSE

\* raise StopIteration: nothing is computed, nothing is assigned.
NextStopIterationResetting ==
    /\ calls < MaxCalls
    /\ ShouldStop
    /\ calls' = calls + 1
    /\ outcome' = "StopIteration"
    /\ position' = << >> /\ w' = 0 /\ pos' = << >>
    /\ center' = << >> /\ context' = << >>
    /\ epoch' = 0 /\ current_position' = 0
    /\ UNCHANGED <<params, order, is_new_epoch, drawn>>
    /\ UNCHANGED others
NextStopIteration ==
    /\ calls < MaxCalls
    /\ ShouldStop
    /\ calls' = calls + 1
    /\ outcome' = "StopIteration"
    /\ position' = << >> /\ w' = 0 /\ pos' = << >>
    /\ center' = << >> /\ context' = << >>
    /\ UNCHANGED <<params, order, current_position, epoch, is_new_epoch, drawn>>
    /\ UNCHANGED others

\* randint raises ValueError, or take raises IndexError: the exception leaves
\* before any attribute is assigned.
NextRaise ==
    /\ calls < MaxCalls
    /\ ~ShouldStop
    /\ calls' = calls + 1
    /\ LET i == current_position
           i_end == i + batch_size
           p == Slice(order, i, i_end)
       IN  /\ position' = p
           /\ \/ /\ SampleW(window) = {}
                 /\ outcome' = "ValueError"
                 /\ w' = 0 /\ pos' = << >>
              \/ \E ww \in SampleW(window) :
                    /\ ~AllTakeOK(p, Pos(p, Offset(ww)))
                    /\ outcome' = "IndexError"
                    /\ w' = ww /\ pos' = Pos(p, Offset(ww))
    /\ center' = << >> /\ context' = << >>
    /\ UNCHANGED <<params, order, current_position, epoch, is_new_epoch, drawn>>
    /\ UNCHANGED others

\* the call returns center, context
NextBatch ==
    /\ calls < MaxCalls
    /\ ~ShouldStop
    /\ calls' = calls + 1
    /\ LET i == current_position
           i_end == i + batch_size
           p == Slice(order, i, i_end)
       IN  \E ww \in SampleW(window) :
              LET ps == Pos(p, Offset(ww))
              IN  /\ AllTakeOK(p, ps)
                  /\ position' = p /\ w' = ww /\ pos' = ps
                  /\ context' = [r \in 1..Len(ps) |->
                                   [c \in 1..Len(ps[r]) |-> Take(dataset, ps[r][c])]]
                  /\ center' = [r \in 1..Len(p) |-> Take(dataset, p[r])]
                  /\ outcome' = "batch"
                  /\ IF EpochEnd(i_end, order)
                     THEN /\ order' \in Shuffle(order)
                          /\ epoch' = epoch + 1
                          /\ is_new_epoch' = TRUE
                          /\ current_position' = 0
                          /\ drawn' = {}
                     ELSE /\ is_new_epoch' = IsNewEpochWithinEpoch
                          /\ current_position' = i_end
                          /\ drawn' = drawn \cup Range(p)
                          /\ UNCHANGED <<order, epoch>>
    /\ UNCHANGED params
    /\ UNCHANGED others

Next == NextStopIteration \/ NextRaise \/ NextBatch

Spec == Init /\ [][Next]_vars

-----------------------------------------------------------------------------
\* WindowIterator.epoch_detail

\* float(a) / b, kept as the exact fraction <<numerator, denominator>>; the
\* rounding of the floating-point division is not modelled.
FloorDiv(a, b) == <<a \div b, 1>>
FloatDiv(a, b) == <<a, b>>

\* e + f for an integer e and a fraction f
FractionOnly(e, f) == f
AddFraction(e, f) == <<e * f[2] + f[1], f[2]>>

\* return self.epoch + float(self.current_position) / len(self.order)
epoch_detail == AddFraction(epoch, FloatDiv(current_position, Len(order)))

-----------------------------------------------------------------------------
\* WindowIterator.serialize

\* the attributes __init__ assigns to the iterator; chainer.dataset.Iterator
\* defines none
Attributes ==
    {"dataset", "window", "batch_size", "_repeat", "order", "current_position",
     "epoch", "is_new_epoch"}

\* serializer(key, value) of a saving serializer: stores value, returns it.
\* Of a loading serializer: returns the stored value.
StoreAfter(mode, ck, key, value) ==
    IF mode = "save" THEN (key :> value) @@ ck ELSE ck
Returned(mode, ck, key, value) ==
    IF mode = "save" THEN value ELSE ck[key]

\* the three keys serialize passes before it touches self._order
ScalarKeys == {"current_position", "epoch", "is_new_epoch"}

\* the iterator as __init__ leaves it
IsFresh ==
    /\ current_position = 0 /\ epoch = 0 /\ is_new_epoch = FALSE
    /\ outcome = "none"

serialize(mode) ==
    /\ ser.count < MaxSerialize
    /\ mode = "load" => ScalarKeys \subseteq DOMAIN checkpoint
    /\ LET ck1 == StoreAfter(mode, checkpoint, "current_position", current_position)
           ck2 == StoreAfter(mode, ck1, "epoch", epoch)
           ck3 == StoreAfter(mode, ck2, "is_new_epoch", is_new_epoch)
       IN  /\ current_position' =
                  Returned(mode, checkpoint, "current_position", current_position)
           /\ epoch' = Returned(mode, ck1, "epoch", epoch)
           /\ is_new_epoch' = Returned(mode, ck2, "is_new_epoch", is_new_epoch)
           /\ IF "_order" \in Attributes
              THEN \* if self._order is not None: serializer('_order', self._order)
                   /\ checkpoint' = StoreAfter(mode, ck3, "_order", order)
                   /\ order' = Returned(mode, ck3, "_order", order)
                   /\ ser' = [mode |-> mode, result |-> "ok", fresh |-> IsFresh,
                              count |-> ser.count + 1]
              ELSE \* self._order raises AttributeError
                   /\ checkpoint' = ck3
                   /\ order' = order
                   /\ ser' = [mode |-> mode, result |-> "AttributeError",
                              fresh |-> IsFresh, count |-> ser.count + 1]
    /\ saved' = IF mode = "save"
                THEN [order |-> order, current_position |-> current_position,
                      epoch |-> epoch, is_new_epoch |-> is_new_epoch]
                ELSE saved
    /\ UNCHANGED <<params, outcome, position, w, pos, center, context, calls, drawn>>
    /\ UNCHANGED models

SerializeSave == serialize("save")

SerializeLoad == serialize("load")

\* WindowIterator(dataset, window, batch_size, repeat) called again over the
\* same corpus, to resume from the checkpoint that was just saved
Resume ==
    /\ ser.mode = "save"
    /\ ~IsFresh
    /\ order' \in InitOrder(N, window)
    /\ current_position' = 0
    /\ epoch' = 0
    /\ is_new_epoch' = FALSE
    /\ outcome' = "none"
    /\ position' = << >> /\ w' = 0 /\ pos' = << >>
    /\ center' = << >> /\ context' = << >>
    /\ drawn' = {}
    /\ UNCHANGED <<params, calls, serialization, models>>

NextSerialize == Next \/ SerializeSave \/ SerializeLoad \/ Resume

SpecSerialize == Init /\ [][NextSerialize]_vars

-----------------------------------------------------------------------------
\* The model classes of the two notebooks.  A value that flows through a
\* network is a term: <<"x1">> is an input, <<f, a>> is f applied to a, and
\* <<"AttributeError", name>> is the exception of reading self.name when no
\* such attribute exists.

Inputs == { <<"x1">>, <<"x2">> }

IsError(t) == t[1] = "AttributeError"

\* f(a), f(a, b): an exception raised while computing an argument leaves
App(f, a) == IF IsError(a) THEN a ELSE <<f, a>>
App2(f, a, b) == IF IsError(a) THEN a ELSE IF IsError(b) THEN b ELSE <<f, a, b>>

\* self.name(a) for a sub-layer registered under name
Link(self, name, a) ==
    IF IsError(a) THEN a
    ELSE IF name \in self.links THEN <<name, a>>
    ELSE <<"AttributeError", name>>

\* every function and sub-layer name that occurs in a term
RECURSIVE Heads(_)
Heads(t) ==
    IF Len(t) = 1 THEN {}
    ELSE {t[1]} \cup UNION { Heads(t[i]) : i \in 2..Len(t) }

\* if chainer.config.train: return h / return F.softmax(h)
\* the result is kept with the last layer's output it was made from
AlwaysSoftmax(train, h) == [last |-> h, out |-> App("softmax", h)]
ByMode(train, h) ==
    [last |-> h, out |-> IF train THEN h ELSE App("softmax", h)]

\* F.dropout(h): the identity outside training mode
Dropout(train, h) == IF train THEN App("dropout", h) ELSE h

\* ---- LeNet5
LeNet5_init ==
    [cls |-> "LeNet5", links |-> {"conv1", "conv2", "conv3", "fc4", "fc5"}]

LeNet5_call(self, x, train) ==
    LET h1 == App("sigmoid", Link(self, "conv1", x))
        h2 == App("max_pooling_2d", h1)
        h3 == App("sigmoid", Link(self, "conv2", h2))
        h4 == App("max_pooling_2d", h3)
        h5 == App("sigmoid", Link(self, "conv3", h4))
        h6 == App("sigmoid", Link(self, "fc4", h5))
    IN  ByMode(train, Link(self, "fc5", h6))

\* ---- VGGBlock
VGGBlock_init(n_channels, n_convs, fc) ==
    [cls |-> "VGGBlock",
     links |-> {"conv1", "conv2"}
                 \cup (IF n_convs = 3 THEN {"conv3"} ELSE {})
                 \cup (IF fc THEN {"fc4", "fc5", "fc6"} ELSE {}),
     n_channels |-> n_channels, n_convs |-> n_convs, fc |-> fc]

VGGBlock_call(self, x, train) ==
    LET h1 == App("relu", Link(self, "conv1", x))
        h2 == App("relu", Link(self, "conv2", h1))
        h3 == IF self.n_convs = 3 THEN App("relu", Link(self, "conv3", h2)) ELSE h2
        h4 == App("max_pooling_2d", h3)
    IN  IF self.fc
        THEN LET h5 == Dropout(train, App("relu", Link(self, "fc4", h4)))
                 h6 == Dropout(train, App("relu", Link(self, "fc5", h5)))
             IN  Link(self, "fc6", h6)
        ELSE h4

\* ---- VGG16
VGG16_init ==
    [cls |-> "VGG16",
     children |-> << VGGBlock_init(64, 2, FALSE), VGGBlock_init(128, 2, FALSE),
                     VGGBlock_init(256, 3, FALSE), VGGBlock_init(512, 3, FALSE),
                     VGGBlock_init(512, 3, TRUE) >>]

\* for f in self.children(): x = f(x)   (the first k children)
RECURSIVE VGGChildren(_, _, _, _)
VGGChildren(children, k, x, train) ==
    IF k = 0 THEN x
    ELSE LET h == VGGChildren(children, k - 1, x, train)
         IN  IF IsError(h) THEN h ELSE VGGBlock_call(children[k], h, train)

VGG16_call(self, x, train) ==
    ByMode(train, VGGChildren(self.children, Len(self.children), x, train))

\* ---- BottleNeck
BottleNeck_init(n_in, n_mid, n_out, stride, proj) ==
    [cls |-> "BottleNeck",
     links |-> {"conv1x1a", "conv3x3b", "conv1x1c", "bn_a", "bn_b", "bn_c"}
                 \cup (IF proj THEN {"conv1x1r", "bn_r"} ELSE {}),
     n_in |-> n_in, n_mid |-> n_mid, n_out |-> n_out,
     stride |-> stride, proj |-> proj]

BottleNeck_call_always_proj(self, x) ==
    LET h1 == App("relu", Link(self, "bn_a", Link(self, "conv1x1a", x)))
        h2 == App("relu", Link(self, "bn_b", Link(self, "conv3x3b", h1)))
        h3 == Link(self, "bn_c", Link(self, "conv1x1c", h2))
        x1 == Link(self, "bn_r", Link(self, "conv1x1r", x))
    IN  App("relu", App2("add", h3, x1))
BottleNeck_call(self, x) ==
    LET h1 == App("relu", Link(self, "bn_a", Link(self, "conv1x1a", x)))
        h2 == App("relu", Link(self, "bn_b", Link(self, "conv3x3b", h1)))
        h3 == Link(self, "bn_c", Link(self, "conv1x1c", h2))
        x1 == IF self.proj THEN Link(self, "bn_r", Link(self, "conv1x1r", x)) ELSE x
    IN  App("relu", App2("add", h3, x1))

\* ---- ResBlock
ResBlock_init(n_layers, n_in, n_mid, n_out, stride) ==
    [cls |-> "ResBlock",
     children |-> << BottleNeck_init(n_in, n_mid, n_out, stride, TRUE) >>
                  \o [k \in 1..(n_layers - 1) |->
                         BottleNeck_init(n_out, n_mid, n_out, 1, FALSE)]]

RECURSIVE ResChildren(_, _, _)
ResChildren(children, k, x) ==
    IF k = 0 THEN x
    ELSE LET h == ResChildren(children, k - 1, x)
         IN  IF IsError(h) THEN h ELSE BottleNeck_call(children[k], h)

ResBlock_call(self, x) == ResChildren(self.children, Len(self.children), x)

\* ---- ResNet152
ResNet152_init(n_blocks) ==
    [cls |-> "ResNet152",
     links |-> {"res2", "res3", "res4", "res5", "conv1", "fc6", "bn1"},
     res2 |-> ResBlock_init(n_blocks[1], 64, 64, 256, 1),
     res3 |-> ResBlock_init(n_blocks[2], 256, 128, 512, 2),
     res4 |-> ResBlock_init(n_blocks[3], 512, 256, 1024, 2),
     res5 |-> ResBlock_init(n_blocks[4], 1024, 512, 2048, 2)]

ResNet152_call(self, x, train) ==
    LET h1 == Link(self, "bn1", Link(self, "conv1", x))
        h2 == App("max_pooling_2d", App("relu", h1))
        h3 == IF IsError(h2) THEN h2 ELSE ResBlock_call(self.res2, h2)
        h4 == IF IsError(h3) THEN h3 ELSE ResBlock_call(self.res3, h3)
        h5 == IF IsError(h4) THEN h4 ELSE ResBlock_call(self.res4, h4)
        h6 == IF IsError(h5) THEN h5 ELSE ResBlock_call(self.res5, h5)
        h7 == App("average_pooling_2d", h6)
    IN  ByMode(train, Link(self, "fc6", h7))

\* ---- SkipGram (5_word2vec.ipynb).  Arrays are sequences of rows; a scalar
\* entry is a token id, an embedding vector is the term <<"embed", id>>.

\* the token ids of the batches given to SkipGram
Tokens == {0, 1}

SkipGram_init(n_vocab, n_units) ==
    [cls |-> "SkipGram", links |-> {"out", "embed"},
     n_vocab |-> n_vocab, n_units |-> n_units]

\* self.embed(context): one vector per entry, shape (batch_size, n_context, n_units)
EmbedID(ctx) ==
    [b \in 1..Len(ctx) |-> [c \in 1..Len(ctx[b]) |-> <<"embed", ctx[b][c]>>]]

\* x[:, None]: shape (batch_size, 1)
ExpandLast(x) == [b \in 1..Len(x) |-> <<x[b]>>]

\* F.broadcast_to(a, (rows, cols)): an axis of length 1 is repeated
BroadcastTo(a, rows, cols) ==
    [b \in 1..rows |-> [c \in 1..cols |->
        a[IF Len(a) = 1 THEN 1 ELSE b][IF Len(a[1]) = 1 THEN 1 ELSE c]]]

\* F.reshape(a, (rows * cols, ...)) of a with shape (rows, cols, ...): the
\* entries in row-major order
ReshapeColumnMajor(a, rows, cols) ==
    [k \in 1..(rows * cols) |-> a[((k - 1) % rows) + 1][((k - 1) \div rows) + 1]]
Reshape(a, rows, cols) ==
    [k \in 1..(rows * cols) |-> a[((k - 1) \div cols) + 1][((k - 1) % cols) + 1]]

SkipGram_call(self, x, ctx) ==
    LET e0 == EmbedID(ctx)
        rows == Len(e0)
        cols == Len(e0[1])
        x1 == BroadcastTo(ExpandLast(x), rows, cols)
        e == Reshape(e0, rows, cols)
        x2 == Reshape(x1, rows, cols)
        center_predictions == [k \in 1..Len(e) |-> Link(self, "out", e[k])]
    IN  [e |-> e, x |-> x2,
         loss |-> <<"softmax_cross_entropy", center_predictions, x2>>]

\* ---- the operations on model objects

\* the word2vec iterator does not exist in a run that only builds networks
NoIterator ==
    /\ dataset = << >> /\ window = 0 /\ batch_size = 0 /\ repeat = FALSE
    /\ order = << >> /\ current_position = 0 /\ epoch = 0
    /\ is_new_epoch = FALSE /\ outcome = "none"
    /\ position = << >> /\ w = 0 /\ pos = << >>
    /\ center = << >> /\ context = << >>
    /\ calls = 0 /\ drawn = {}
    /\ checkpoint = << >>
    /\ ser = [mode |-> "none", result |-> "none", fresh |-> FALSE, count |-> 0]
    /\ saved = [order |-> << >>, current_position |-> 0, epoch |-> 0,
                is_new_epoch |-> FALSE]

InitModels ==
    /\ NoIterator
    /\ config_train \in BOOLEAN
    /\ chain = NoChain
    /\ fwd = NoCall

\* a constructor call; the new object has not been called yet
Construct(obj) ==
    /\ chain' = obj
    /\ fwd' = NoCall
    /\ UNCHANGED <<iterator, serialization, config_train>>

NewLeNet5 == Construct(LeNet5_init)

NewVGG16 == Construct(VGG16_init)

NewResNet152 == \E n_blocks \in [1..4 -> 1..MaxBlocks] : Construct(ResNet152_init(n_blocks))

NewVGGBlock ==
    \E n_channels \in {64, 512}, n_convs \in 1..MaxConvs, fc \in BOOLEAN :
        Construct(VGGBlock_init(n_channels, n_convs, fc))

NewBottleNeck ==
    \E stride \in {1, 2}, proj \in BOOLEAN :
        Construct(BottleNeck_init(256, 64, 256, stride, proj))

NewSkipGram == Construct(SkipGram_init(2, 100))

\* obj(x): __call__ assigns nothing, so one call of each object is followed
Called(cls, record) ==
    /\ chain.cls = cls
    /\ fwd = NoCall
    /\ fwd' = record
    /\ UNCHANGED <<iterator, serialization, config_train, chain>>

CallLeNet5 ==
    \E x \in Inputs :
        LET r == LeNet5_call(chain, x, config_train)
        IN  Called("LeNet5", [cls |-> "LeNet5", train |-> config_train,
                              last |-> r.last, out |-> r.out, x |-> x])

CallVGG16 ==
    \E x \in Inputs :
        LET r == VGG16_call(chain, x, config_train)
        IN  Called("VGG16", [cls |-> "VGG16", train |-> config_train,
                             last |-> r.last, out |-> r.out, x |-> x])

CallResNet152 ==
    \E x \in Inputs :
        LET r == ResNet152_call(chain, x, config_train)
        IN  Called("ResNet152", [cls |-> "ResNet152", train |-> config_train,
                                 last |-> r.last, out |-> r.out, x |-> x])

CallVGGBlock ==
    \E x \in Inputs :
        Called("VGGBlock", [cls |-> "VGGBlock", train |-> config_train,
                            out |-> VGGBlock_call(chain, x, config_train),
                            x |-> x])

CallBottleNeck ==
    \E x \in Inputs :
        Called("BottleNeck", [cls |-> "BottleNeck",
                              out |-> BottleNeck_call(chain, x), x |-> x])

CallSkipGram ==
    \E rows \in 1..MaxBatch, cols \in 1..MaxContext :
        \E x \in [1..rows -> Tokens], ctx \in [1..rows -> [1..cols -> Tokens]] :
            LET r == SkipGram_call(chain, x, ctx)
            IN  Called("SkipGram", [context |-> ctx, cls |-> "SkipGram",
                                    e |-> r.e, t |-> r.x, x |-> x,
                                    loss |-> r.loss])

NextModels ==
    \/ NewLeNet5 \/ NewVGG16 \/ NewResNet152 \/ NewVGGBlock \/ NewBottleNeck
    \/ NewSkipGram
    \/ CallLeNet5 \/ CallVGG16 \/ CallResNet152 \/ CallVGGBlock \/ CallBottleNeck
    \/ CallSkipGram

SpecModels == InitModels /\ [][NextModels]_vars

-----------------------------------------------------------------------------
\* Quantities the properties are stated in.

\* N - 2C: the number of valid center positions
NumValid == N - 2 * window

\* [C, N-C-1]: the valid center positions
ValidPositions == window..(N - window - 1)

\* ceil(a / b)
CeilDiv(a, b) == (a + b - 1) \div b

-----------------------------------------------------------------------------
\* C1: every center position a draw uses lies in [C, N-C-1], for every corpus
\* with N > 2C, every batch size, either repeat setting, after any number of
\* draws.
C1_CenterInRange ==
    \A k \in 1..Len(position) : position[k] \in ValidPositions

\* a batch drawn after a reshuffle holds both ends of the valid range
C1_Witness ==
    /\ outcome = "batch" /\ epoch >= 1 /\ calls >= 2
    /\ Len(position) >= 2
    /\ window \in Range(position)
    /\ (N - window - 1) \in Range(position)

\* C2: every context index position+offset that a draw reads from the corpus
\* lies in [0, N-1].
C2_ContextInBounds ==
    \A r \in 1..Len(pos) : \A c \in 1..Len(pos[r]) : pos[r][c] \in 0..(N - 1)

\* a batch with w = 2 whose rows reach the lowest and the highest index read
C2_Witness ==
    /\ outcome = "batch" /\ w = 2 /\ epoch >= 1
    /\ \E r \in 1..Len(pos) : pos[r][1] = window - 2
    /\ \E r \in 1..Len(pos) : pos[r][Len(pos[r])] = N - window + 1

\* C3: on every draw the sub-radius w is chosen from exactly {1, ..., C}: w is
\* never outside that set and every value of it, w = C included, can be
\* sampled by the draw.
C3_SubRadiusSet ==
    /\ outcome = "batch" => w \in 1..window
    /\ (calls < MaxCalls /\ ~ShouldStop) =>
          \A v \in 1..window : ENABLED (NextBatch /\ w' = v)

\* C4: in every returned batch, with w the sub-radius of the draw, the context
\* of each center position p has exactly 2w entries, the tokens at p-w, ...,
\* p-1, p+1, ..., p+w in that order, none at p itself; all rows share w.
C4_ContextShape ==
    outcome = "batch" =>
        /\ w \in 1..window
        /\ Len(pos) = Len(position)
        /\ Len(context) = Len(position)
        /\ Len(center) = Len(position)
        /\ \A r \in 1..Len(position) :
              /\ Len(pos[r]) = 2 * w
              /\ Len(context[r]) = 2 * w
              /\ center[r] = dataset[position[r]]
              /\ \A c \in 1..(2 * w) :
                    /\ pos[r][c] = (IF c <= w THEN position[r] - w + c - 1
                                              ELSE position[r] + c - w)
                    /\ pos[r][c] # position[r]
                    /\ context[r][c] = dataset[pos[r][c]]

\* a batch of two rows or more drawn with w = 2
C4_Witness ==
    outcome = "batch" /\ w = 2 /\ Len(position) >= 2 /\ Len(context) >= 2

\* C5: with repeat=False each of the first ceil((N-2C)/B) draws returns a
\* batch and the next draw signals StopIteration.
C5_Exhaustion ==
    ~repeat =>
        /\ calls \in 1..CeilDiv(NumValid, batch_size) => outcome = "batch"
        /\ calls = CeilDiv(NumValid, batch_size) + 1 => outcome = "StopIteration"

\* C6: with repeat=False, once a draw has signalled StopIteration every later
\* draw signals it too and returns no batch, and a draw that signals it leaves
\* the cursor, the epoch counter, the new-epoch flag and the order unchanged.
C6_StopIsFinal ==
    [][ /\ (~repeat /\ outcome = "StopIteration") =>
               (outcome' = "StopIteration" /\ center' = << >> /\ context' = << >>)
        /\ (calls' # calls /\ outcome' = "StopIteration") =>
               UNCHANGED <<current_position, epoch, is_new_epoch, order>> ]_vars

\* a pass of two draws or more, then two draws in a row that signal the end
C6_Witness ==
    /\ ~repeat /\ outcome = "StopIteration"
    /\ CeilDiv(NumValid, batch_size) >= 2
    /\ calls >= CeilDiv(NumValid, batch_size) + 2

\* C7: with repeat=True the epoch counter increments exactly once per full
\* pass: a draw increments it iff it consumes the last remaining position of
\* the current permutation, never by more than 1, and between two increments
\* every one of the N-2C valid positions has been drawn.
C7_EpochOncePerPass ==
    [][ repeat =>
          /\ epoch' \in {epoch, epoch + 1}
          /\ calls' # calls =>
                ((epoch' = epoch + 1) <=>
                     (outcome' = "batch" /\ order[Len(order)] \in Range(position')))
          /\ epoch' = epoch + 1 =>
                drawn \cup Range(position') = ValidPositions ]_vars

\* two passes completed with a batch size that does not divide N - 2C
C7_Witness ==
    /\ repeat /\ epoch >= 2 /\ outcome = "batch"
    /\ Len(order) = 3 /\ batch_size = 2

\* C8: in every reachable state the order is a bijection onto {C, ...,
\* N-C-1}: N-2C entries, no duplicates, nothing gained or lost by a reshuffle.
C8_OrderIsBijection ==
    /\ Len(order) = NumValid
    /\ Range(order) = ValidPositions
    /\ \A a, b \in 1..Len(order) : a # b => order[a] # order[b]

\* an order that two reshuffles have left out of ascending order
C8_Witness ==
    /\ epoch >= 2 /\ Len(order) = 3
    /\ order[1] > order[2]

\* C9: with repeat=True no draw signals the end: every draw returns a batch,
\* also the draw that follows a reshuffle.
C9_NeverEnds ==
    (repeat /\ calls > 0) => outcome = "batch"

\* C10: every draw that returns a batch returns exactly batch_size center
\* tokens and batch_size context rows, the last draw of an epoch included.
C10_FullBatch ==
    outcome = "batch" =>
        (Len(center) = batch_size /\ Len(context) = batch_size)

\* C11: for every valid input every draw either returns a batch or signals
\* StopIteration; no other error outcome is reachable, also not for C = 1.
C11_OnlyBatchOrStop ==
    outcome \in {"batch", "none", "StopIteration"}

\* C12: is_new_epoch is false after construction, and after every draw that
\* returns a batch it is true iff that draw incremented the epoch counter,
\* equivalently iff the cursor is 0 after the draw.
C12_NewEpochFlag ==
    [][ /\ calls = 0 => is_new_epoch = FALSE
        /\ (calls' # calls /\ outcome' = "batch") =>
              /\ is_new_epoch' <=> (epoch' = epoch + 1)
              /\ is_new_epoch' <=> (current_position' = 0) ]_vars

\* a draw inside a pass that follows a draw which completed a pass
C12_Witness ==
    /\ outcome = "batch" /\ epoch >= 1 /\ current_position > 0
    /\ is_new_epoch = FALSE

\* C13: in every reachable state epoch_detail is the exact ratio epoch +
\* current_position / (N-2C); it is 0 after construction and equals the
\* integer epoch count right after every draw that completes a pass.
C13_EpochDetail ==
    /\ epoch_detail[2] > 0
    /\ epoch_detail[1] * NumValid =
           (epoch * NumValid + current_position) * epoch_detail[2]
    /\ calls = 0 => epoch_detail[1] = 0
    /\ (outcome = "batch" /\ is_new_epoch) =>
           epoch_detail[1] = epoch * epoch_detail[2]

\* a state inside the second pass: the value is strictly between 1 and 2
C13_Witness ==
    /\ outcome = "batch" /\ epoch = 1 /\ current_position > 0
    /\ epoch_detail[1] > epoch_detail[2]
    /\ epoch_detail[1] < 2 * epoch_detail[2]

\* C15: serialize completes without raising an error on any constructed
\* iterator, in any reachable state, with a saving or a loading serializer.
C15_SerializeCompletes ==
    ser.mode # "none" => ser.result = "ok"

\* C16: saving with serialize in any reachable state and loading that
\* checkpoint into a freshly constructed iterator over the same corpus
\* restores the cursor, the epoch counter, the new-epoch flag and the order.
C16_RoundTrip ==
    [][ (ser'.count # ser.count /\ ser'.mode = "load" /\ ser'.fresh) =>
           /\ current_position' = saved.current_position
           /\ epoch' = saved.epoch
           /\ is_new_epoch' = saved.is_new_epoch
           /\ order' = saved.order ]_vars

\* C18: the order changes only at an epoch boundary. A draw (a call that gets
\* past the end-of-sequence check) with cursor + B < N-2C leaves the order and
\* the epoch counter unchanged and advances the cursor by exactly B; the order
\* is reshuffled only by a draw with cursor + B >= N-2C, and the batch that
\* draw returns is taken from the order as it was before the reshuffle.
C18_OrderChangesOnlyAtEpochEnd ==
    [][ (calls' # calls /\ ~ShouldStop) =>
           /\ (current_position + batch_size < NumValid) =>
                  /\ order' = order
                  /\ epoch' = epoch
                  /\ current_position' = current_position + batch_size
           /\ (order' # order) => (current_position + batch_size >= NumValid)
           /\ (current_position + batch_size >= NumValid /\ outcome' = "batch") =>
                  /\ Len(position') = NumValid - current_position
                  /\ \A k \in 1..Len(position') :
                        position'[k] = order[current_position + k] ]_vars

\* C17: the forward call of LeNet5, VGG16 and ResNet152 switches on
\* chainer.config.train: in training mode it returns the last layer's output
\* unchanged, otherwise the softmax of that same output; the call reads the
\* flag and never writes it.
C17_TrainSwitch ==
    [][ /\ fwd' # fwd => config_train' = config_train
        /\ fwd'.cls \in {"LeNet5", "VGG16", "ResNet152"} =>
              /\ fwd'.train = config_train
              /\ fwd'.last[1] = (IF fwd'.cls = "LeNet5" THEN "fc5" ELSE "fc6")
              /\ fwd'.train => fwd'.out = fwd'.last
              /\ ~fwd'.train => fwd'.out = <<"softmax", fwd'.last>> ]_vars

\* a VGG16 called outside training mode
C17_Witness ==
    /\ fwd.cls = "VGG16" /\ ~fwd.train
    /\ fwd.out[1] = "softmax"

\* C19: a BottleNeck uses conv1x1r and bn_r iff they were registered
\* (proj=True), a VGGBlock uses conv3 iff n_convs == 3 and fc4, fc5, fc6 iff
\* fc, so no forward call references an unregistered sub-layer; with
\* proj=False a BottleNeck has no conv1x1r and no bn_r.
C19_RegisteredIffUsed ==
    /\ chain.cls = "BottleNeck" =>
          /\ chain.proj => {"conv1x1r", "bn_r"} \subseteq chain.links
          /\ ~chain.proj => chain.links \cap {"conv1x1r", "bn_r"} = {}
    /\ chain.cls = "VGGBlock" =>
          /\ ("conv3" \in chain.links) <=> (chain.n_convs = 3)
          /\ chain.fc => {"fc4", "fc5", "fc6"} \subseteq chain.links
          /\ ~chain.fc => chain.links \cap {"fc4", "fc5", "fc6"} = {}
    /\ fwd.cls \in {"LeNet5", "VGGBlock", "VGG16", "BottleNeck", "ResNet152"} =>
          ~IsError(fwd.out)
    /\ fwd.cls = "BottleNeck" =>
          \A name \in {"conv1x1r", "bn_r"} :
              (name \in Heads(fwd.out)) <=> (name \in chain.links)
    /\ fwd.cls = "VGGBlock" =>
          \A name \in {"conv3", "fc4", "fc5", "fc6"} :
              (name \in Heads(fwd.out)) <=> (name \in chain.links)

\* a BottleNeck built with proj=False has been called
C19_Witness ==
    /\ fwd.cls = "BottleNeck" /\ chain.cls = "BottleNeck" /\ ~chain.proj
    /\ "conv1x1c" \in Heads(fwd.out)

\* C20: in SkipGram.__call__, for x of shape (batch_size,) and contexts of
\* shape (batch_size, n_context), the k-th flattened context embedding is the
\* embedding of contexts[k div n_context][k mod n_context] and its target is
\* x[k div n_context]: every context word is paired with the center word of
\* its own row.
C20_ContextPairedWithOwnCenter ==
    fwd.cls = "SkipGram" =>
        LET batch == Len(fwd.x)
            n_context == Len(fwd.context[1])
        IN  /\ Len(fwd.e) = batch * n_context
            /\ Len(fwd.t) = batch * n_context
            /\ \A k \in 0..(batch * n_context - 1) :
                  /\ fwd.e[k + 1] =
                        <<"embed", fwd.context[(k \div n_context) + 1][(k % n_context) + 1]>>
                  /\ fwd.t[k + 1] = fwd.x[(k \div n_context) + 1]

\* a batch of two rows with different centers and two context words each
C20_Witness ==
    /\ fwd.cls = "SkipGram"
    /\ Len(fwd.x) = 2 /\ Len(fwd.context[1]) = 2
    /\ fwd.x[1] # fwd.x[2]
    /\ fwd.context[1] # fwd.context[2]

\* C21: within one epoch the returned batches contain every valid center
\* position exactly once: a batch never repeats a position, neither within
\* itself nor from an earlier batch of the pass, and the draw that increments
\* the epoch completes {C, ..., N-C-1}; with repeat=False there is one pass.
C21_SinglePassCoverage ==
    [][ /\ (calls' # calls /\ outcome' = "batch") =>
              /\ \A a, b \in 1..Len(position') :
                    a # b => position'[a] # position'[b]
              /\ Range(position') \cap drawn = {}
              /\ Range(position') \subseteq ValidPositions
              /\ Cardinality(drawn) + Len(position') <= NumValid
              /\ (epoch' = epoch + 1) <=>
                    (drawn \cup Range(position') = ValidPositions)
              /\ (epoch' = epoch + 1) <=>
                    (Cardinality(drawn) + Len(position') = NumValid)
        /\ ~repeat => epoch' <= 1 ]_vars

\* a pass of three positions completed by a batch of two and a batch of one,
\* without repeat
C21_Witness ==
    /\ ~repeat /\ epoch = 1 /\ outcome = "batch"
    /\ Len(order) = 3 /\ batch_size = 2 /\ Len(position) = 1

\* C22: in every reachable state 0 <= current_position < len(order) and
\* current_position is a multiple of B, so the fractional part of
\* epoch_detail lies in [0, 1).
C22_CursorInRange ==
    /\ 0 <= current_position
    /\ current_position < Len(order)
    /\ current_position % batch_size = 0
    /\ 0 <= epoch_detail[1] - epoch * epoch_detail[2]
    /\ epoch_detail[1] - epoch * epoch_detail[2] < epoch_detail[2]

\* the cursor on the last position of a second pass drawn one by one
C22_Witness ==
    /\ batch_size = 1 /\ Len(order) = 3 /\ current_position = 2
    /\ epoch >= 1 /\ outcome = "batch"

\* C23: no draw returns an empty batch: every returned batch has at least
\* one center position, also when B divides N-2C exactly.
C23_NoEmptyBatch ==
    outcome = "batch" =>
        /\ Len(position) >= 1
        /\ Len(center) >= 1
        /\ Len(context) >= 1

\* B divides N-2C: the draw after the last full batch of a pass returned a
\* full batch of the next pass
C23_Witness ==
    /\ outcome = "batch" /\ repeat /\ epoch >= 1
    /\ Len(order) = 2 /\ batch_size = 1 /\ current_position = 1
    /\ Len(center) = 1

\* C24: epoch_detail never decreases: it is strictly greater after every
\* draw that returns a batch, and unchanged by a draw that signals
\* StopIteration.
C24_EpochDetailMonotone ==
    [][ /\ epoch_detail'[1] * epoch_detail[2] >= epoch_detail[1] * epoch_detail'[2]
        /\ (calls' # calls /\ outcome' = "batch") =>
              epoch_detail'[1] * epoch_detail[2] > epoch_detail[1] * epoch_detail'[2]
        /\ (calls' # calls /\ outcome' = "StopIteration") =>
              epoch_detail'[1] * epoch_detail[2] = epoch_detail[1] * epoch_detail'[2] ]_vars

\* the draw that wraps the cursor to 0 has been made and a StopIteration
\* has followed it
C24_Witness ==
    /\ ~repeat /\ outcome = "StopIteration" /\ calls >= 3
    /\ batch_size = 2 /\ Len(order) = 3
    /\ epoch_detail[1] = epoch_detail[2]

=============================================================================
